---- MODULE Spec2Model ----
(***************************************************************************)
(* Funnel search over Matryoshka embeddings, as implemented by             *)
(* calculate_score and funnel_search in                                    *)
(* bootcamp/tutorials/quickstart/funnel_search_with_matryoshka.ipynb.      *)
(*                                                                         *)
(* Numbers.  The code works on floating-point vectors.  The model uses     *)
(* small integer vectors and exact arithmetic.  A cosine similarity c is   *)
(* kept as the fraction num/den = sign(c) * c^2, which is strictly         *)
(* increasing in c, so comparing two scores by cross-multiplication is     *)
(* comparing the two cosines; c = 1.0 exactly when num = den > 0.          *)
(* Prune ratios are dyadic fractions, for which the floating-point         *)
(* product prune_ratio * len(df) is exact.                                 *)
(***************************************************************************)
EXTENDS Integers, Sequences, FiniteSets, TLC

\* ---------------------------------------------------------------- bounds
\* Largest number of candidates in the data frame handed to funnel_search.
MaxCand == 3

\* Largest number of entries of scales.
MaxRounds == 2

\* Largest candidate list of the default-schedule runs, in multiples of 8.
MaxOctets == 2

\* Largest number of documents in the collection the retriever searches.
MaxDocs == 2

\* Largest number of items of the evaluation dataset.
MaxItems == 2

\* Largest number of golden chunks of an item of the dataset.
MaxGolden == 2

\* Largest number of documents a search of the evaluation returns.
MaxResults == 2

\* ---------------------------------------------------------------- inputs
\* Embeddings the candidates are drawn from (repetition allowed, so that
\* equal scores occur).  Every prefix of every vector is non-zero.
Embeddings ==
  { <<3, 4, 0>>, <<6, 8, 5>>, <<-1, 2, 2>> }

\* Query embeddings.
Queries == { <<3, 4, 0>>, <<1, 2, 6>> }

\* Length of the full embedding (embedding_dim in the notebook).
embedding_dim == Len(CHOOSE e \in Embeddings : TRUE)

\* prune_ratio values, as fractions num/den in (0,1).
PruneRatios ==
  { [num |-> 1, den |-> 4], [num |-> 1, den |-> 2], [num |-> 3, den |-> 4] }

\* The value of the "scores" column of a frame that has no such column yet.
NoScore == [num |-> 0, den |-> 0]

VARIABLES
  df,          \* local df of funnel_search: sequence of rows
  df_in,       \* the caller's data frame object (the argument)
  query_emb,   \* argument query_emb
  scales,      \* argument scales
  prune_ratio, \* argument prune_ratio
  i,           \* position of the for loop in scales (1-based)
  emb,         \* local emb: the normalized query prefix of this round
  entering,    \* the frame as it entered the current round
  pc,          \* "loop", "score", "rerank", "prune", "done", "raised"
  scores,      \* local scores: what df.apply has returned so far, by row
  other        \* a second call of funnel_search, not running at present

\* The call of funnel_search that is running.
call_vars ==
  <<df, df_in, query_emb, scales, prune_ratio, i, emb, entering, pc, scores>>

\* HybridRetriever.search (full_text_search_with_milvus.ipynb)
VARIABLES
  embedding_function, \* self.embedding_function: what it returns, or "None"
  mode,        \* argument mode
  query,       \* argument query
  limit,       \* argument k
  embedding,   \* local embedding: what embedding_function returned
  dense_vec,   \* local dense_vec
  results,     \* local results: what the client returned
  calls,       \* the calls made on embedding_function and on the client
  returned,    \* the list search returns
  error,       \* the message of the exception search raised
  search_pc    \* "entry", "dispatch", "collect", "returned", "raised"

search_vars ==
  <<embedding_function, mode, query, limit, embedding, dense_vec, results, calls, returned,
    error, search_pc>>

\* The Pass@5 evaluation cell (full_text_search_with_milvus.ipynb)
VARIABLES
  golden_contents,   \* local golden_contents
  top_results,       \* results: what standard_retriever.search returned
  chunks_found,      \* chunks_found
  golden_at,         \* position of "for golden_content in golden_contents"
  doc_at,            \* position of "for doc in results[:k]"
  query_score,       \* query_score of the last item scored
  total_query_score, \* total_query_score
  num_queries,       \* num_queries
  eval_pc            \* "next", "search", "match", "score", "end", "raised"

eval_vars ==
  <<golden_contents, top_results, chunks_found, golden_at, doc_at,
    query_score, total_query_score, num_queries, eval_pc>>

vars == <<call_vars, other, search_vars, eval_vars>>

\* ------------------------------------------------------------ arithmetic
Min(a, b) == IF a <= b THEN a ELSE b

Max(a, b) == IF a >= b THEN a ELSE b

Sgn(x) == IF x > 0 THEN 1 ELSE IF x < 0 THEN -1 ELSE 0

\* Prefix with the slice one element short (v[:dims - 1]).
Prefix_short(v, dims) == SubSeq(v, 1, Min(dims - 1, Len(v)))

\* Prefix with the colon of the slice misplaced (v[dims:]).
Prefix_rest(v, dims) == SubSeq(v, Min(dims, Len(v)) + 1, Len(v))

\* Prefix with the slice one element long (v[:dims + 1]).
Prefix_long(v, dims) == SubSeq(v, 1, Min(dims + 1, Len(v)))

\* v[:dims] for dims >= 0: a slice never fails, it stops at the end of v.
Prefix(v, dims) == SubSeq(v, 1, Min(dims, Len(v)))

RECURSIVE Dot(_, _)
\* u @ v for two vectors of the same length.
Dot(u, v) ==
  IF Len(u) = 0 THEN 0
  ELSE u[1] * v[1] + Dot(Tail(u), Tail(v))

\* Square of the Euclidean norm.
NormSq(v) == Dot(v, v)

\* A unit vector vec / sqrt(nsq), kept as the pair (vec, nsq).
\* The query prefix divided by its norm.
np_normalize(v) == [vec |-> v, nsq |-> NormSq(v)]

\* F_normalize with the division by the norm left out.
F_normalize_raw(v) == [vec |-> v, nsq |-> 1]

\* F.normalize(v, dim=-1): v / max(norm, eps); a zero vector stays zero.
F_normalize(v) ==
  IF NormSq(v) = 0 THEN [vec |-> v, nsq |-> 1]
  ELSE [vec |-> v, nsq |-> NormSq(v)]

\* calculate_score keeping the score a row already has.
calculate_score_stale(row, q, dims) ==
  LET e == F_normalize(Prefix(row.embedding, dims))
      d == Dot(e.vec, q.vec)
  IN  IF row.scores.den # 0 THEN row.scores
      ELSE [num |-> Sgn(d) * d * d, den |-> e.nsq * q.nsq]

\* calculate_score(row, query_emb=q, dims=dims), q the normalized query.
calculate_score(row, q, dims) ==
  LET e == F_normalize(Prefix(row.embedding, dims))
      d == Dot(e.vec, q.vec)
  IN  [num |-> Sgn(d) * d * d, den |-> e.nsq * q.nsq]

\* s >= t, s > t and s = t as numbers.
ScoreGE(s, t) == s.num * t.den >= t.num * s.den

ScoreGT(s, t) == s.num * t.den > t.num * s.den

ScoreEQ(s, t) == s.num * t.den = t.num * s.den

\* int rounding up instead of truncating (math.ceil).
int_ceil(num, den) == -((-num) \div den)

\* int rounding to the nearest integer instead of truncating (round).
int_round(num, den) == (2 * num + den) \div (2 * den)

\* int(x) for the fraction num/den, den > 0: truncation toward zero.
int(num, den) ==
  IF num >= 0 THEN num \div den ELSE -((-num) \div den)

\* head keeping the last n rows instead of the first (df.tail).
head_tail(f, n) == SubSeq(f, Len(f) - Min(Max(n, 0), Len(f)) + 1, Len(f))

\* head appending the first n rows to the frame instead of selecting them.
head_concat(f, n) == f \o SubSeq(f, 1, Min(Max(n, 0), Len(f)))

\* df.head(n)
head(f, n) ==
  IF n >= 0 THEN SubSeq(f, 1, Min(n, Len(f)))
  ELSE SubSeq(f, 1, Max(Len(f) + n, 0))

RECURSIVE Ascending(_, _)
\* sort_values with ascending=True: the rows of f at the positions S in
\* every ascending order of the scores.
Ascending(f, S) ==
  IF S = {} THEN { <<>> }
  ELSE UNION { { <<f[x]>> \o t : t \in Ascending(f, S \ {x}) } :
                 x \in { y \in S : \A z \in S : ScoreGE(f[z].scores, f[y].scores) } }

sort_values_asc(f) == Ascending(f, 1..Len(f))

RECURSIVE Descending(_, _)
\* The rows of f at the positions S in every order that is descending in
\* the scores: a row with a largest score first, then the rest likewise.
Descending(f, S) ==
  IF S = {} THEN { <<>> }
  ELSE UNION { { <<f[x]>> \o t : t \in Descending(f, S \ {x}) } :
                 x \in { y \in S : \A z \in S : ScoreGE(f[y].scores, f[z].scores) } }

\* The score of the row is NaN (0/0: the query prefix had norm zero).
NaNRow(row) == row.scores.den = 0

\* The frames df.sort_values(by="scores", ascending=False) may return: the
\* default kind is quicksort, which is not stable, so rows with equal
\* scores come out in an order the call does not determine.  Rows whose
\* score is NaN are put last (na_position="last"), in their present order.
sort_values(f) ==
  { s \o SelectSeq(f, NaNRow) :
      s \in Descending(f, { k \in 1..Len(f) : ~NaNRow(f[k]) }) }

\* ------------------------------------------------------------------ Init
\* No second call of funnel_search is there.
NoCall == [pc |-> "none"]

\* HybridRetriever.search has not been called.
SearchIdle ==
  /\ embedding_function = "None"
  /\ mode = "" /\ query = "" /\ limit = 0
  /\ embedding = "" /\ dense_vec = "" /\ results = <<>>
  /\ calls = <<>> /\ returned = <<>> /\ error = ""
  /\ search_pc = "idle"

\* The evaluation cell has not been run.
EvalIdle ==
  /\ golden_contents = <<>> /\ top_results = <<>>
  /\ chunks_found = 0 /\ golden_at = 0 /\ doc_at = 0
  /\ query_score = [num |-> 0, den |-> 1]
  /\ total_query_score = [num |-> 0, den |-> 1]
  /\ num_queries = 0
  /\ eval_pc = "idle"

Frames ==
  UNION { [1..n -> Embeddings] : n \in 1..MaxCand }

Schedules ==
  UNION { [1..n -> 1..embedding_dim] : n \in 1..MaxRounds }

\* A frame with columns title and embedding; the title is the position of
\* the row in the frame handed to funnel_search.
MkFrame(es) ==
  [k \in 1..Len(es) |-> [title |-> k, embedding |-> es[k], scores |-> NoScore]]

Init ==
  /\ \E es \in Frames : df = MkFrame(es)
  /\ df_in = df
  /\ query_emb \in Queries
  /\ scales \in Schedules
  /\ prune_ratio \in PruneRatios
  /\ i = 1
  /\ emb = np_normalize(<<>>)
  /\ entering = df
  /\ pc = "loop"
  /\ scores = <<>>
  /\ other = NoCall
  /\ SearchIdle
  /\ EvalIdle

\* --------------------------------------------------------------- actions
\* for dims in scales: emb = query_emb[:dims] / norm(query_emb[:dims])
ForDims ==
  /\ pc = "loop"
  /\ i <= Len(scales)
  /\ emb' = np_normalize(Prefix(query_emb, scales[i]))
  /\ entering' = df
  /\ pc' = "score"
  /\ UNCHANGED <<df, df_in, query_emb, scales, prune_ratio, i>>
  /\ UNCHANGED <<scores, other, search_vars, eval_vars>>

\* Scored writing the normalized prefix back into the embedding column.
Scored_inplace(f) ==
  [k \in 1..Len(f) |->
     [f[k] EXCEPT !.scores = calculate_score(f[k], emb, scales[i]),
                  !.embedding = Prefix(f[k].embedding, scales[i])]]

\* The rows of f with the scores column set by calculate_score.
Scored(f) ==
  [k \in 1..Len(f) |->
     [f[k] EXCEPT !.scores = calculate_score(f[k], emb, scales[i])]]

\* scores = df.apply(calculate_score, axis=1); df["scores"] = scores
\* On a frame without rows apply returns a frame, not a column, and the
\* assignment raises ValueError.  In the first round df is the caller's
\* object, so the new column is written to it.
Score ==
  /\ pc = "score"
  /\ IF Len(df) = 0
     THEN /\ pc' = "raised"
          /\ UNCHANGED <<df, df_in>>
     ELSE /\ df' = Scored(df)
          /\ df_in' = IF i = 1 THEN Scored(df_in) ELSE df_in
          /\ pc' = "rerank"
  /\ UNCHANGED <<query_emb, scales, prune_ratio, i, emb, entering>>
  /\ UNCHANGED <<scores, other, search_vars, eval_vars>>

\* df = df.sort_values(by="scores", ascending=False)
Rerank ==
  /\ pc = "rerank"
  /\ df' \in sort_values(df)
  /\ pc' = "prune"
  /\ UNCHANGED <<df_in, query_emb, scales, prune_ratio, i, emb, entering>>
  /\ UNCHANGED <<scores, other, search_vars, eval_vars>>

\* df = df.head(int(prune_ratio * len(df)))
Prune ==
  /\ pc = "prune"
  /\ df' = head(df, int(prune_ratio.num * Len(df), prune_ratio.den))
  /\ i' = i + 1
  /\ pc' = "loop"
  /\ UNCHANGED <<df_in, query_emb, scales, prune_ratio, emb, entering>>
  /\ UNCHANGED <<scores, other, search_vars, eval_vars>>

\* return df
Return ==
  /\ pc = "loop"
  /\ i > Len(scales)
  /\ pc' = "done"
  /\ UNCHANGED <<df, df_in, query_emb, scales, prune_ratio, i, emb, entering>>
  /\ UNCHANGED <<scores, other, search_vars, eval_vars>>

Next == ForDims \/ Score \/ Rerank \/ Prune \/ Return

Spec == Init /\ [][Next]_vars

\* ------------------------------------------------- apply, row by row
\* df.apply(..., axis=1) calls calculate_score once per row and collects
\* the values in a Series indexed like df.  Here the calls are steps of
\* their own and may complete in any order; scores holds the values
\* collected so far, each with the index label (title) of its row.  After
\* the assignment the local scores is not read again and is left empty.
Labels(sc) == { sc[n].title : n \in 1..Len(sc) }

\* One call of calculate_score by apply, for a row not yet scored.
ApplyRow ==
  /\ pc = "score"
  /\ \E k \in 1..Len(df) :
       /\ df[k].title \notin Labels(scores)
       /\ scores' = Append(scores, [title |-> df[k].title,
                                    score |-> calculate_score(df[k], emb, scales[i])])
  /\ UNCHANGED <<df, df_in, query_emb, scales, prune_ratio, i, emb, entering, pc>>
  /\ UNCHANGED <<other, search_vars, eval_vars>>

\* Assigned taking the values in the order they were collected.
Assigned_positional(f, sc) ==
  [k \in 1..Len(f) |-> [f[k] EXCEPT !.scores = sc[k].score]]

\* df["scores"] = scores: a Series is aligned on the index labels.
Assigned(f, sc) ==
  [k \in 1..Len(f) |->
     [f[k] EXCEPT !.scores =
        sc[CHOOSE n \in 1..Len(sc) : sc[n].title = f[k].title].score]]

\* df["scores"] = scores, once apply has returned.
AssignScores ==
  /\ pc = "score"
  /\ Len(scores) = Len(df)
  /\ IF Len(df) = 0
     THEN /\ pc' = "raised"
          /\ UNCHANGED <<df, df_in>>
     ELSE /\ df' = Assigned(df, scores)
          /\ df_in' = IF i = 1 THEN Assigned(df_in, scores) ELSE df_in
          /\ pc' = "rerank"
  /\ scores' = <<>>
  /\ UNCHANGED <<query_emb, scales, prune_ratio, i, emb, entering>>
  /\ UNCHANGED <<other, search_vars, eval_vars>>

\* Embeddings of the frames scored row by row.
RowEmbeddings == { <<3, 4, 0>>, <<-1, 2, 2>> }

\* Calls on frames over RowEmbeddings with prune_ratio 0.5 or 0.75.
InitRows ==
  /\ \E es \in UNION { [1..n -> RowEmbeddings] : n \in 1..MaxCand } :
       df = MkFrame(es)
  /\ df_in = df
  /\ query_emb \in Queries
  /\ scales \in Schedules
  /\ prune_ratio \in { [num |-> 1, den |-> 2], [num |-> 3, den |-> 4] }
  /\ i = 1
  /\ emb = np_normalize(<<>>)
  /\ entering = df
  /\ pc = "loop"
  /\ scores = <<>>
  /\ other = NoCall
  /\ SearchIdle
  /\ EvalIdle

NextRows == ForDims \/ ApplyRow \/ AssignScores \/ Rerank \/ Prune \/ Return

SpecRows == InitRows /\ [][NextRows]_vars

\* ------------------------------------------------- two calls
\* The state of the call that is running, as a record.
ThisCall ==
  [df |-> df, df_in |-> df_in, query_emb |-> query_emb, scales |-> scales,
   prune_ratio |-> prune_ratio, i |-> i, emb |-> emb, entering |-> entering,
   pc |-> pc, scores |-> scores]

\* A call of funnel_search(df, query_emb, scales, prune_ratio) at entry,
\* df being a frame of its own with the embeddings es.
NewCall(es, q, sc, pr) ==
  [df |-> MkFrame(es), df_in |-> MkFrame(es), query_emb |-> q, scales |-> sc,
   prune_ratio |-> pr, i |-> 1, emb |-> np_normalize(<<>>),
   entering |-> MkFrame(es), pc |-> "loop", scores |-> <<>>]

\* Switch with emb a module-level name shared by the two calls.
Switch_shared_emb ==
  /\ other.pc \notin {"none", "done", "raised"}
  /\ df' = other.df /\ df_in' = other.df_in
  /\ query_emb' = other.query_emb /\ scales' = other.scales
  /\ prune_ratio' = other.prune_ratio /\ i' = other.i
  /\ emb' = emb /\ entering' = other.entering
  /\ pc' = other.pc /\ scores' = other.scores
  /\ other' = ThisCall
  /\ UNCHANGED <<search_vars, eval_vars>>

\* The running call is suspended and the other call goes on from where it
\* was: df, emb, scores and the loop position are locals of each call, the
\* arguments are each call's own objects.
Switch ==
  /\ other.pc \notin {"none", "done", "raised"}
  /\ df' = other.df /\ df_in' = other.df_in
  /\ query_emb' = other.query_emb /\ scales' = other.scales
  /\ prune_ratio' = other.prune_ratio /\ i' = other.i
  /\ emb' = other.emb /\ entering' = other.entering
  /\ pc' = other.pc /\ scores' = other.scores
  /\ other' = ThisCall
  /\ UNCHANGED <<search_vars, eval_vars>>

\* Inputs of the two calls: one frame and one query embedding per query,
\* as the notebook zips them.  The schedules are of one or two rounds at
\* the same prefix length.
PairEmbeddings == { <<3, 4, 0>>, <<-1, 2, 2>> }

PairFrames == UNION { [1..n -> PairEmbeddings] : n \in 1..2 }

PairSchedules == { <<2>>, <<2, 2>> }

InitPair ==
  /\ \E es \in PairFrames, q \in Queries, sc \in PairSchedules :
       /\ df = MkFrame(es) /\ query_emb = q /\ scales = sc
  /\ df_in = df
  /\ prune_ratio = [num |-> 1, den |-> 2]
  /\ i = 1
  /\ emb = np_normalize(<<>>)
  /\ entering = df
  /\ pc = "loop"
  /\ scores = <<>>
  /\ \E es \in PairFrames, q \in Queries, sc \in PairSchedules :
       other = NewCall(es, q, sc, [num |-> 1, den |-> 2])
  /\ SearchIdle
  /\ EvalIdle

NextPair ==
  ForDims \/ ApplyRow \/ AssignScores \/ Rerank \/ Prune \/ Return \/ Switch

SpecPair == InitPair /\ [][NextPair]_vars

\* ------------------------------------------------- a call and a variant
\* The largest entry of a schedule.
MaxScale(sc) == CHOOSE m \in { sc[j] : j \in 1..Len(sc) } : \A j \in 1..Len(sc) : sc[j] <= m

\* Embeddings and queries that agree with one another on a prefix and
\* differ after it.
TailEmbeddings ==
  { <<3, 4, 0>>, <<3, 4, 5>>, <<-1, 2, 2>>, <<-1, 2, 0>>, <<-1, 0, 2>> }

TailQueries == { <<3, 4, 0>>, <<3, 4, 2>>, <<3, 1, 2>> }

TailFrames == UNION { [1..n -> TailEmbeddings] : n \in 1..2 }

TailSchedules == { <<1>>, <<2>>, <<1, 2>>, <<2, 1>>, <<2, 3>> }

\* The running call, and in other the entry of a call whose query and
\* candidate embeddings agree with its own on the first max(scales)
\* components; the other call is not run.
InitTail ==
  /\ \E es \in TailFrames : df = MkFrame(es)
  /\ df_in = df
  /\ query_emb \in TailQueries
  /\ scales \in TailSchedules
  /\ prune_ratio \in { [num |-> 1, den |-> 2], [num |-> 1, den |-> 1] }
  /\ i = 1
  /\ emb = np_normalize(<<>>)
  /\ entering = df
  /\ pc = "loop"
  /\ scores = <<>>
  /\ \E es \in TailFrames, q \in TailQueries :
       /\ Len(es) = Len(df)
       /\ \A j \in 1..MaxScale(scales) : q[j] = query_emb[j]
       /\ \A k \in 1..Len(es) : \A j \in 1..MaxScale(scales) :
            es[k][j] = df[k].embedding[j]
       /\ other = NewCall(es, q, scales, prune_ratio)
  /\ SearchIdle
  /\ EvalIdle

SpecTail == InitTail /\ [][Next]_vars

\* Embeddings and queries with positive multiples of theirs.
ScaledEmbeddings ==
  { <<3, 4, 0>>, <<6, 8, 0>>, <<-1, 2, 2>>, <<-3, 6, 6>>, <<6, 8, 5>> }

ScaledQueries == { <<3, 4, 0>>, <<9, 12, 0>>, <<1, 2, 6>>, <<2, 4, 12>> }

ScaledFrames == UNION { [1..n -> ScaledEmbeddings] : n \in 1..2 }

\* u = c * v for a positive constant c.
Multiple(u, v) ==
  \E m, n \in 1..3 : \A j \in 1..Len(u) : m * u[j] = n * v[j]

\* The running call, and in other the entry of a call whose query and
\* candidate embeddings are positive multiples of its own; the other call
\* is not run.
InitScaled ==
  /\ \E es \in ScaledFrames : df = MkFrame(es)
  /\ df_in = df
  /\ query_emb \in ScaledQueries
  /\ scales \in TailSchedules
  /\ prune_ratio \in { [num |-> 1, den |-> 2], [num |-> 1, den |-> 1] }
  /\ i = 1
  /\ emb = np_normalize(<<>>)
  /\ entering = df
  /\ pc = "loop"
  /\ scores = <<>>
  /\ \E es \in ScaledFrames, q \in ScaledQueries :
       /\ Len(es) = Len(df)
       /\ Multiple(q, query_emb)
       /\ \A k \in 1..Len(es) : Multiple(es[k], df[k].embedding)
       /\ other = NewCall(es, q, scales, prune_ratio)
  /\ SearchIdle
  /\ EvalIdle

SpecScaled == InitScaled /\ [][Next]_vars

\* ------------------------------------------------- end-to-end scenario
\* Embeddings and queries of length four for the scenario of four
\* candidates refined over three growing prefixes ending at the full
\* length (the notebook's scales = [256, 512, 768] of 768 dimensions).
E2EEmbeddings ==
  { <<3, 4, 0, 0>>, <<2, 4, 3, 1>>, <<4, 2, 1, 3>>, <<-1, 2, 2, 0>> }

E2EQueries == { <<3, 4, 2, 2>>, <<1, 2, 2, 1>> }

E2EScales == <<2, 3, 4>>

InitE2E ==
  /\ \E es \in [1..4 -> E2EEmbeddings] : df = MkFrame(es)
  /\ df_in = df
  /\ query_emb \in E2EQueries
  /\ scales = E2EScales
  /\ prune_ratio = [num |-> 1, den |-> 2]
  /\ i = 1
  /\ emb = np_normalize(<<>>)
  /\ entering = df
  /\ pc = "loop"
  /\ scores = <<>>
  /\ other = NoCall
  /\ SearchIdle
  /\ EvalIdle

SpecE2E == InitE2E /\ [][Next]_vars

\* ------------------------------------------------- default schedule
\* Runs with the default arguments scales = [256, 512, 768] (here the
\* prefixes 2, 3, 4 of embeddings of length four) and prune_ratio = 0.5 on
\* candidate lists whose length is a multiple of 8 (128 in the notebook).
\* The embedding of row k depends on k and on a rotation r of the list.
DefaultEmbedding(k, n, r) ==
  <<((k + r) % n) + 1, 2, n - ((k + r) % n), 1>>

DefaultFrames ==
  UNION { { [k \in 1..(8 * m) |-> DefaultEmbedding(k, 8 * m, r)] :
              r \in 0..(8 * m - 1) } : m \in 1..MaxOctets }

InitDefault ==
  /\ \E es \in DefaultFrames : df = MkFrame(es)
  /\ df_in = df
  /\ query_emb \in E2EQueries
  /\ scales = E2EScales
  /\ prune_ratio = [num |-> 1, den |-> 2]
  /\ i = 1
  /\ emb = np_normalize(<<>>)
  /\ entering = df
  /\ pc = "loop"
  /\ scores = <<>>
  /\ other = NoCall
  /\ SearchIdle
  /\ EvalIdle

SpecDefault == InitDefault /\ [][Next]_vars

\* ------------------------------------------------- calls outside the contract
\* Inputs the contract of the ranking excludes: no candidate, a prefix of
\* norm zero, a scale beyond the embedding length, an empty schedule and
\* prune ratios outside (0,1).  All embeddings have one length.
InvalidEmbeddings == { <<3, 4, 0>>, <<0, 0, 5>> }

InvalidQueries == { <<3, 4, 0>>, <<0, 3, 4>> }

InvalidPruneRatios ==
  { [num |-> 0, den |-> 1], [num |-> 1, den |-> 2], [num |-> 1, den |-> 1],
    [num |-> 3, den |-> 2], [num |-> -1, den |-> 2] }

InvalidFrames == UNION { [1..n -> InvalidEmbeddings] : n \in 0..2 }

InvalidSchedules ==
  UNION { [1..n -> 1..(embedding_dim + 1)] : n \in 0..2 }

InitInvalid ==
  /\ \E es \in InvalidFrames : df = MkFrame(es)
  /\ df_in = df
  /\ query_emb \in InvalidQueries
  /\ scales \in InvalidSchedules
  /\ prune_ratio \in InvalidPruneRatios
  /\ i = 1
  /\ emb = np_normalize(<<>>)
  /\ entering = df
  /\ pc = "loop"
  /\ scores = <<>>
  /\ other = NoCall
  /\ SearchIdle
  /\ EvalIdle

SpecInvalid == InitInvalid /\ [][Next]_vars

\* ------------------------------------------------- HybridRetriever.search
\* No call of funnel_search is there.
FunnelIdle ==
  /\ df = <<>> /\ df_in = <<>> /\ query_emb = <<>> /\ scales = <<>>
  /\ prune_ratio = [num |-> 0, den |-> 1]
  /\ i = 0 /\ emb = np_normalize(<<>>) /\ entering = <<>>
  /\ pc = "idle" /\ scores = <<>>
  /\ other = NoCall

\* Values of mode: the three the method knows, and others.
Modes == { "sparse", "dense", "hybrid", "Hybrid", "bm25" }

SearchQueries == { "milvus", "full text search" }

\* dense_embedding_function: BGEM3EmbeddingFunction returns a dict with
\* the key "dense", other embedding functions a list; the default of the
\* constructor is None.
EmbeddingFunctions == { "dict", "list", "None" }

RECURSIVE Arrangements(_, _)
\* The sequences of n distinct elements of S.
Arrangements(S, n) ==
  IF n = 0 THEN { <<>> }
  ELSE UNION { { <<x>> \o t : t \in Arrangements(S \ {x}, n - 1) } : x \in S }

\* What the client can answer to a search with limit n on one query: a
\* list holding one list of at most n hits, each a document of the
\* collection.
Hit(doc) ==
  [entity |-> [doc_id |-> doc, chunk_id |-> doc, content |-> doc], distance |-> doc]

Answers(n) ==
  { << [j \in 1..Len(a) |-> Hit(a[j])] >> :
      a \in UNION { Arrangements(1..MaxDocs, m) : m \in 0..Min(n, MaxDocs) } }

InitSearch ==
  /\ FunnelIdle
  /\ EvalIdle
  /\ embedding_function \in EmbeddingFunctions
  /\ mode \in Modes
  /\ query \in SearchQueries
  /\ limit \in 1..MaxDocs
  /\ embedding = "" /\ dense_vec = "" /\ results = <<>>
  /\ calls = <<>> /\ returned = <<>> /\ error = ""
  /\ search_pc = "entry"

\* SearchEmbed calling the embedding function whatever the mode is.
SearchEmbed_always ==
  /\ search_pc = "entry"
  /\ IF embedding_function = "None"
     THEN /\ error' = "TypeError"
          /\ search_pc' = "raised"
          /\ UNCHANGED <<embedding, dense_vec, calls>>
     ELSE /\ calls' = Append(calls, [fn |-> "embedding_function", data |-> query])
          /\ embedding' = embedding_function
          /\ dense_vec' = <<"dense", query>>
          /\ search_pc' = "dispatch"
          /\ UNCHANGED error
  /\ UNCHANGED <<embedding_function, mode, query, limit, results, returned>>
  /\ UNCHANGED <<call_vars, other, eval_vars>>

\* if mode in ["dense", "hybrid"]: embedding = self.embedding_function([query])
\* and dense_vec is taken from it, from the key "dense" of a dict or from a
\* list.  Calling None raises TypeError.
SearchEmbed ==
  /\ search_pc = "entry"
  /\ IF mode \in { "dense", "hybrid" }
     THEN IF embedding_function = "None"
          THEN /\ error' = "TypeError"
               /\ search_pc' = "raised"
               /\ UNCHANGED <<embedding, dense_vec, calls>>
          ELSE /\ calls' = Append(calls, [fn |-> "embedding_function", data |-> query])
               /\ embedding' = embedding_function
               /\ dense_vec' = <<"dense", query>>
               /\ search_pc' = "dispatch"
               /\ UNCHANGED error
     ELSE /\ search_pc' = "dispatch"
          /\ UNCHANGED <<embedding, dense_vec, calls, error>>
  /\ UNCHANGED <<embedding_function, mode, query, limit, results, returned>>
  /\ UNCHANGED <<call_vars, other, eval_vars>>

\* if mode == "sparse": results = self.client.search(data=[query],
\* anns_field="sparse_vector", limit=k)
SearchSparse ==
  /\ search_pc = "dispatch"
  /\ mode = "sparse"
  /\ calls' = Append(calls, [fn |-> "client.search", data |-> query,
                             anns_field |-> "sparse_vector"])
  /\ results' \in Answers(limit)
  /\ search_pc' = "collect"
  /\ UNCHANGED <<embedding_function, mode, query, limit, embedding, dense_vec,
                 returned, error>>
  /\ UNCHANGED <<call_vars, other, eval_vars>>

\* elif mode == "dense": results = self.client.search(data=[dense_vec],
\* anns_field="dense_vector", limit=k)
SearchDense ==
  /\ search_pc = "dispatch"
  /\ mode = "dense"
  /\ calls' = Append(calls, [fn |-> "client.search", data |-> dense_vec,
                             anns_field |-> "dense_vector"])
  /\ results' \in Answers(limit)
  /\ search_pc' = "collect"
  /\ UNCHANGED <<embedding_function, mode, query, limit, embedding, dense_vec,
                 returned, error>>
  /\ UNCHANGED <<call_vars, other, eval_vars>>

\* elif mode == "hybrid": results = self.client.hybrid_search(
\* [full_text_search_req, dense_req], ranker=RRFRanker(), limit=k)
SearchHybrid ==
  /\ search_pc = "dispatch"
  /\ mode = "hybrid"
  /\ calls' = Append(calls, [fn |-> "client.hybrid_search",
                             data |-> <<query, dense_vec>>,
                             anns_field |-> <<"sparse_vector", "dense_vector">>])
  /\ results' \in Answers(limit)
  /\ search_pc' = "collect"
  /\ UNCHANGED <<embedding_function, mode, query, limit, embedding, dense_vec,
                 returned, error>>
  /\ UNCHANGED <<call_vars, other, eval_vars>>

\* else: raise ValueError("Invalid mode")
SearchInvalid ==
  /\ search_pc = "dispatch"
  /\ mode \notin { "sparse", "dense", "hybrid" }
  /\ error' = "Invalid mode"
  /\ search_pc' = "raised"
  /\ UNCHANGED <<embedding_function, mode, query, limit, embedding, dense_vec,
                 results, calls, returned>>
  /\ UNCHANGED <<call_vars, other, eval_vars>>

\* return [{"doc_id": ..., "chunk_id": ..., "content": ..., "score":
\* doc["distance"]} for doc in results[0]]
SearchReturn ==
  /\ search_pc = "collect"
  /\ returned' = [j \in 1..Len(results[1]) |->
                    [doc_id |-> results[1][j].entity.doc_id,
                     chunk_id |-> results[1][j].entity.chunk_id,
                     content |-> results[1][j].entity.content,
                     score |-> results[1][j].distance]]
  /\ search_pc' = "returned"
  /\ UNCHANGED <<embedding_function, mode, query, limit, embedding, dense_vec,
                 results, calls, error>>
  /\ UNCHANGED <<call_vars, other, eval_vars>>

NextSearch ==
  \/ SearchEmbed \/ SearchSparse \/ SearchDense \/ SearchHybrid
  \/ SearchInvalid \/ SearchReturn

SpecSearch == InitSearch /\ [][NextSearch]_vars

\* ------------------------------------------------- Pass@5 evaluation
\* k = 5
top_k == 5

\* Chunk contents: a text, with or without white space around it.
Contents == [text : { "def f", "class C" }, pad : BOOLEAN]

\* content.strip()
strip(c) == [c EXCEPT !.pad = FALSE]

\* What one entry of golden_chunk_uuids resolves to: the content of the
\* chunk, or None when the document or the chunk is not found.
NoChunk == [text |-> "None", pad |-> FALSE]

GoldenChunks == Contents \cup { NoChunk }

RECURSIVE GCD(_, _)
GCD(a, b) == IF b = 0 THEN a ELSE GCD(b, a % b)

\* The number num/den, den > 0, in lowest terms.
Fraction(num, den) ==
  [num |-> num \div GCD(num, den), den |-> den \div GCD(num, den)]

InitEval ==
  /\ FunnelIdle
  /\ SearchIdle
  /\ golden_contents = <<>> /\ top_results = <<>>
  /\ chunks_found = 0 /\ golden_at = 0 /\ doc_at = 0
  /\ query_score = [num |-> 0, den |-> 1]
  /\ total_query_score = [num |-> 0, den |-> 1]
  /\ num_queries = 0
  /\ eval_pc = "next"

\* for query_item in dataset: chunks_found = 0 and golden_contents is the
\* list of the stripped contents of the golden chunks that are found.
EvalItem ==
  /\ eval_pc = "next"
  /\ num_queries < MaxItems
  /\ \E golden \in UNION { [1..n -> GoldenChunks] : n \in 0..MaxGolden } :
       golden_contents' =
         LET found == SelectSeq(golden, LAMBDA c : c # NoChunk)
         IN  [n \in 1..Len(found) |-> strip(found[n])]
  /\ chunks_found' = 0
  /\ eval_pc' = "search"
  /\ UNCHANGED <<top_results, golden_at, doc_at, query_score,
                 total_query_score, num_queries>>
  /\ UNCHANGED <<call_vars, other, search_vars>>

\* results = standard_retriever.search(query, mode=mode, k=5): a list of
\* documents, of which the loop reads the content.
EvalSearch ==
  /\ eval_pc = "search"
  /\ top_results' \in UNION { [1..n -> Contents] : n \in 0..MaxResults }
  /\ golden_at' = 1
  /\ doc_at' = 1
  /\ eval_pc' = "match"
  /\ UNCHANGED <<golden_contents, chunks_found, query_score,
                 total_query_score, num_queries>>
  /\ UNCHANGED <<call_vars, other, search_vars>>

\* EvalMatch without the break: a match goes on to the next document.
EvalMatch_no_break ==
  /\ eval_pc = "match"
  /\ IF golden_at > Len(golden_contents)
     THEN /\ eval_pc' = "score"
          /\ UNCHANGED <<golden_at, doc_at, chunks_found>>
     ELSE IF doc_at > Min(top_k, Len(top_results))
     THEN /\ golden_at' = golden_at + 1
          /\ doc_at' = 1
          /\ UNCHANGED <<chunks_found, eval_pc>>
     ELSE /\ chunks_found' =
               IF strip(top_results[doc_at]) = golden_contents[golden_at]
               THEN chunks_found + 1 ELSE chunks_found
          /\ doc_at' = doc_at + 1
          /\ UNCHANGED <<golden_at, eval_pc>>
  /\ UNCHANGED <<golden_contents, top_results, query_score,
                 total_query_score, num_queries>>
  /\ UNCHANGED <<call_vars, other, search_vars>>

\* One step of "for golden_content in golden_contents: for doc in
\* results[:k]": the comparison of one document with one golden content; a
\* match counts the golden content and breaks to the next one.
EvalMatch ==
  /\ eval_pc = "match"
  /\ IF golden_at > Len(golden_contents)
     THEN /\ eval_pc' = "score"
          /\ UNCHANGED <<golden_at, doc_at, chunks_found>>
     ELSE IF doc_at > Min(top_k, Len(top_results))
     THEN /\ golden_at' = golden_at + 1
          /\ doc_at' = 1
          /\ UNCHANGED <<chunks_found, eval_pc>>
     ELSE IF strip(top_results[doc_at]) = golden_contents[golden_at]
     THEN /\ chunks_found' = chunks_found + 1
          /\ golden_at' = golden_at + 1
          /\ doc_at' = 1
          /\ UNCHANGED eval_pc
     ELSE /\ doc_at' = doc_at + 1
          /\ UNCHANGED <<golden_at, chunks_found, eval_pc>>
  /\ UNCHANGED <<golden_contents, top_results, query_score,
                 total_query_score, num_queries>>
  /\ UNCHANGED <<call_vars, other, search_vars>>

\* query_score = chunks_found / len(golden_contents), which raises
\* ZeroDivisionError on an empty list; total_query_score += query_score;
\* num_queries += 1
EvalScore ==
  /\ eval_pc = "score"
  /\ IF Len(golden_contents) = 0
     THEN /\ eval_pc' = "raised"
          /\ UNCHANGED <<query_score, total_query_score, num_queries>>
     ELSE /\ query_score' = Fraction(chunks_found, Len(golden_contents))
          /\ total_query_score' =
               Fraction(total_query_score.num * Len(golden_contents)
                          + chunks_found * total_query_score.den,
                        total_query_score.den * Len(golden_contents))
          /\ num_queries' = num_queries + 1
          /\ eval_pc' = "next"
  /\ UNCHANGED <<golden_contents, top_results, chunks_found, golden_at, doc_at>>
  /\ UNCHANGED <<call_vars, other, search_vars>>

\* The dataset has no further item.
EvalEnd ==
  /\ eval_pc = "next"
  /\ eval_pc' = "end"
  /\ UNCHANGED <<golden_contents, top_results, chunks_found, golden_at, doc_at,
                 query_score, total_query_score, num_queries>>
  /\ UNCHANGED <<call_vars, other, search_vars>>

NextEval == EvalItem \/ EvalSearch \/ EvalMatch \/ EvalScore \/ EvalEnd

SpecEval == InitEval /\ [][NextEval]_vars

\* ------------------------------------------------- reference definitions
\* floor(a / b) for a >= 0 and b > 0, from its defining inequalities.
FloorFrac(a, b) == CHOOSE k \in 0..a : k * b <= a /\ a < (k + 1) * b

\* Cosine similarity of the dims-prefixes of u and q (as sign * square).
CosAt(u, q, dims) ==
  LET pu == [k \in 1..dims |-> u[k]]
      pq == [k \in 1..dims |-> q[k]]
      d  == Dot(pu, pq)
  IN  [num |-> Sgn(d) * d * d, den |-> NormSq(pu) * NormSq(pq)]

\* Cosine similarity of the whole vectors u and q.
FullCos(u, q) ==
  [num |-> Sgn(Dot(u, q)) * Dot(u, q) * Dot(u, q), den |-> NormSq(u) * NormSq(q)]

\* The titles of a frame, as a set.
TitleSet(f) == { f[k].title : k \in 1..Len(f) }

\* Position of the row with title t in frame f.
Pos(f, t) == CHOOSE k \in 1..Len(f) : f[k].title = t

\* A round has been completed and the loop is at its head or has returned.
AfterRound == (pc = "loop" /\ i > 1) \/ pc = "done"

\* The frames one round at prefix length dims can leave of frame f: the
\* rows scored, sorted and pruned; none when the round raises.
RoundAlone(f, q, dims, pr) ==
  IF Len(f) = 0 THEN {}
  ELSE { head(s, int(pr.num * Len(s), pr.den)) :
           s \in sort_values(
                   [k \in 1..Len(f) |->
                      [f[k] EXCEPT !.scores =
                         calculate_score(f[k], np_normalize(Prefix(q, dims)), dims)]]) }

RECURSIVE FramesAfter(_, _, _, _, _)
\* The frames a call on frame f that runs alone can hold after r rounds.
FramesAfter(f, q, sc, pr, r) ==
  IF r = 0 THEN { f }
  ELSE UNION { RoundAlone(g, q, sc[r], pr) : g \in FramesAfter(f, q, sc, pr, r - 1) }

\* The frame of the caller as it was passed in, without the scores column.
Passed(f) == MkFrame([k \in 1..Len(f) |-> f[k].embedding])

\* ---------------------------------------------------------------- claims
\* C1: every round of a run on a non-empty candidate set retains at least
\* one candidate, so the frame after a round and the returned frame are
\* never empty.
C1_RetainsAtLeastOne == AfterRound => Len(df) >= 1

\* C2: the prune of a round keeps exactly the first
\* floor(prune_ratio * current_size) rows of the sorted frame, current_size
\* being the number of rows that entered the round, and drops the others.
C2_PruneKeepsFloorPrefix ==
  [][pc = "prune" =>
       df' = SubSeq(df, 1, FloorFrac(prune_ratio.num * Len(entering),
                                     prune_ratio.den))]_vars

\* C2 witness: a prune of three rows by 3/4 has kept floor(2.25) = 2 rows.
C2_Witness ==
  /\ pc = "loop" /\ i > 1
  /\ Len(entering) = 3
  /\ prune_ratio = [num |-> 3, den |-> 4]
  /\ Len(df) = 2

\* C3: the returned frame is no longer than the frame passed in, and the
\* frame never grows from one step, hence one round, to the next.
C3_MonotonicShrink ==
  /\ [](Len(df) <= Len(df_in))
  /\ [][Len(df') <= Len(df)]_vars

\* C3 witness: a run of two rounds that shrank in both.
C3_Witness ==
  /\ pc = "done"
  /\ Len(scales) = 2
  /\ Len(df) < Len(entering)
  /\ Len(entering) < Len(df_in)

\* C4: the returned rows carry the cosine similarity of the last scale and
\* are in descending order of it.
C4_ResultSortedByLastScale ==
  pc = "done" =>
    /\ \A k \in 1..Len(df) :
         ScoreEQ(df[k].scores, CosAt(df[k].embedding, query_emb, scales[Len(scales)]))
    /\ \A k \in 1..(Len(df) - 1) :
         ScoreGE(CosAt(df[k].embedding, query_emb, scales[Len(scales)]),
                 CosAt(df[k + 1].embedding, query_emb, scales[Len(scales)]))

\* C4 witness: a run returns rows with different scores in another order
\* than they were passed in.
C4_Witness ==
  /\ pc = "done"
  /\ Len(df) >= 2
  /\ ScoreGT(df[1].scores, df[2].scores)
  /\ df[1].title > df[2].title
  /\ df[1].embedding # df[2].embedding

\* C5: with scales = [D] the returned rows are a leading part of the
\* candidates sorted by full-embedding cosine similarity: they are in
\* descending order of it and no dropped candidate beats a retained one.
C5_SingleFullRound ==
  (pc = "done" /\ scales = <<embedding_dim>>) =>
    /\ \A k \in 1..(Len(df) - 1) :
         ScoreGE(FullCos(df[k].embedding, query_emb),
                 FullCos(df[k + 1].embedding, query_emb))
    /\ \A k \in 1..Len(df) : \A m \in 1..Len(df_in) :
         df_in[m].title \notin TitleSet(df) =>
           ScoreGE(FullCos(df[k].embedding, query_emb),
                   FullCos(df_in[m].embedding, query_emb))

\* C5 witness: a full-length round that reordered the candidates and
\* dropped one.
C5_Witness ==
  /\ pc = "done"
  /\ scales = <<embedding_dim>>
  /\ Len(df) >= 2
  /\ Len(df) < Len(df_in)
  /\ df[1].title > df[2].title
  /\ ScoreGT(df[1].scores, df[2].scores)

\* C6: a single round with prune_ratio in [(n-1)/n, 1) on n candidates
\* returns n - 1 of them.
C6_JustBelowOne ==
  (/\ pc = "done"
   /\ Len(scales) = 1
   /\ (Len(df_in) - 1) * prune_ratio.den <= prune_ratio.num * Len(df_in)) =>
    Len(df) = Len(df_in) - 1

\* C6 witness: three candidates and prune_ratio 3/4 leave two.
C6_Witness ==
  /\ pc = "done"
  /\ Len(scales) = 1
  /\ Len(df_in) = 3
  /\ prune_ratio = [num |-> 3, den |-> 4]
  /\ Len(df) = 2

\* C8: the re-rank keeps rows with equal scores in the relative order they
\* had when they entered the round.
C8_StableTies ==
  [][pc = "rerank" =>
       \A a, b \in 1..Len(df) :
         (a < b /\ ScoreEQ(df[a].scores, df[b].scores)) =>
           Pos(df', df[a].title) < Pos(df', df[b].title)]_vars

\* u is a positive multiple of v (m * u = n * v for positive m, n).
PositiveMultiple(u, v) ==
  \E m, n \in 1..8 : \A j \in 1..Len(u) : m * u[j] = n * v[j]

\* C9: the score given at prefix length dims is at most 1.0, and it is
\* exactly 1.0 for every candidate whose dims-prefix is a positive multiple
\* of the query's dims-prefix.
C9_ParallelScoresOne ==
  pc = "rerank" =>
    \A k \in 1..Len(df) :
      /\ df[k].scores.den > 0
      /\ df[k].scores.num <= df[k].scores.den
      /\ PositiveMultiple([j \in 1..scales[i] |-> df[k].embedding[j]],
                          [j \in 1..scales[i] |-> query_emb[j]]) =>
           df[k].scores.num = df[k].scores.den

\* C9 witness: candidate [6,8,...] scored against query [3,4,...] at
\* dims = 2, next to a candidate that is not parallel to the query.
C9_Witness ==
  /\ pc = "rerank"
  /\ scales[i] = 2
  /\ query_emb = <<3, 4, 0>>
  /\ \E k, m \in 1..Len(df) :
       /\ df[k].embedding = <<6, 8, 5>>
       /\ df[k].scores.num = df[k].scores.den
       /\ df[m].scores.num < df[m].scores.den

\* a led b after the first round and both survived it: a has the larger
\* first-scale cosine and at most one candidate is not below b.
LedAfterFirst(a, b) ==
  /\ ScoreGT(CosAt(df_in[a].embedding, query_emb, scales[1]),
             CosAt(df_in[b].embedding, query_emb, scales[1]))
  /\ Cardinality({ m \in 1..Len(df_in) :
       m # b /\ ScoreGE(CosAt(df_in[m].embedding, query_emb, scales[1]),
                        CosAt(df_in[b].embedding, query_emb, scales[1])) }) <= 1

Accepted == pc \in {"score", "rerank", "prune", "done"}

\* prune_ratio lies in (0,1) and scales is not empty.
ValidSchedule ==
  /\ Len(scales) > 0
  /\ 0 < prune_ratio.num
  /\ prune_ratio.num < prune_ratio.den

\* The query or a candidate is shorter than the largest scale.
DimensionMismatch ==
  \E j \in 1..Len(scales) :
    \/ scales[j] > Len(query_emb)
    \/ \E k \in 1..Len(df_in) : scales[j] > Len(df_in[k].embedding)

\* The first dims components of v are all zero.
ZeroPrefix(v, dims) == \A j \in 1..dims : v[j] = 0

\* The round in progress meets a prefix of norm zero, in the query or in a
\* candidate that entered the round.
DegenerateNow ==
  \/ ZeroPrefix(query_emb, scales[i])
  \/ \E k \in 1..Len(entering) : ZeroPrefix(entering[k].embedding, scales[i])

\* C11: a call whose query or candidate embeddings are shorter than
\* max(scales) is rejected: it starts no round, scores nothing on a
\* shortened prefix and returns nothing.
C11_DimensionMismatchRejected ==
  (Len(df_in) > 0 /\ ValidSchedule /\ DimensionMismatch) => ~Accepted

\* C12: a call with an empty candidate set is rejected at entry: it starts
\* no round and returns nothing.
C12_EmptyCandidatesRejected ==
  (Len(df_in) = 0 /\ ValidSchedule /\ ~DimensionMismatch) => ~Accepted

\* C13: no round assigns scores when the prefix of the query or of a
\* surviving candidate has norm zero.
C13_NoScoreFromZeroPrefix ==
  (Len(df_in) > 0 /\ ValidSchedule /\ ~DimensionMismatch) =>
    (pc \in {"rerank", "prune"} => ~DegenerateNow)

\* C14: a call with prune_ratio outside (0,1) or with an empty scales is
\* rejected: it starts no round and returns nothing.
C14_InvalidScheduleRejected ==
  (Len(df_in) > 0 /\ ~ValidSchedule) => ~Accepted

\* An error condition of the contract holds at this point of the call: at
\* entry for the candidates, the schedule and the lengths, in a round for
\* a prefix of norm zero.
ErrorMet ==
  \/ /\ pc = "loop" /\ i = 1
     /\ (Len(df_in) = 0 \/ ~ValidSchedule \/ DimensionMismatch)
  \/ /\ pc = "score"
     /\ Len(df_in) > 0 /\ ValidSchedule /\ ~DimensionMismatch
     /\ DegenerateNow

\* C15: once an error condition is met the call fails at once: the next
\* step raises, no round goes on and no frame is returned.
C15_ErrorsPropagateAtOnce == [][ErrorMet => pc' = "raised"]_vars

\* ------------------------------------------- frame, schedule and rounds
\* C16: every row of the frame in the call has the title and the embedding
\* of a row of the caller's frame, and no step changes the length of the
\* caller's frame, a title or an embedding in it.
C16_IdentityAndEmbeddingKept ==
  /\ [](\A k \in 1..Len(df) :
          /\ df[k].title \in 1..Len(df_in)
          /\ df[k].title = df_in[df[k].title].title
          /\ df[k].embedding = df_in[df[k].title].embedding)
  /\ [][/\ Len(df_in') = Len(df_in)
        /\ \A k \in 1..Len(df_in) :
             /\ df_in'[k].title = df_in[k].title
             /\ df_in'[k].embedding = df_in[k].embedding]_vars

\* C16 witness: a prefix shorter than the embedding was scored, and the
\* run returned rows in another order than they were passed in.
C16_Witness ==
  /\ pc = "done"
  /\ scales[1] < embedding_dim
  /\ Len(df) >= 2
  /\ df[1].title > df[2].title
  /\ ScoreGT(df[1].scores, df[2].scores)

\* C17: the caller's frame is never written: it keeps its rows in their
\* order and carries no score.
C17_InputUntouched ==
  df_in = MkFrame([k \in 1..Len(df_in) |-> df_in[k].embedding])

\* C18: with the default scales and prune_ratio 0.5 a list of n candidates,
\* n a multiple of 8, is n/2 long after the first round, n/4 after the
\* second and n/8 after the third.
C18_DefaultHalving ==
  /\ (pc = "loop" /\ i = 2) => 2 * Len(df) = Len(df_in)
  /\ (pc = "loop" /\ i = 3) => 4 * Len(df) = Len(df_in)
  /\ pc = "done" => 8 * Len(df) = Len(df_in)

\* C18 witness: sixteen candidates have been pruned to eight, four, two.
C18_Witness ==
  /\ pc = "done"
  /\ Len(df_in) = 16
  /\ Len(df) = 2

\* C19: the scores of a round are the cosine similarities at that round's
\* prefix length alone, whatever the earlier rounds assigned, and the frame
\* a round leaves is in descending order of them.
C19_ScoresOverwritten ==
  LET dims == IF AfterRound THEN scales[i - 1] ELSE scales[i]
  IN  /\ (AfterRound \/ pc \in {"rerank", "prune"}) =>
           \A k \in 1..Len(df) :
             /\ df[k].scores.den > 0
             /\ ScoreEQ(df[k].scores, CosAt(df[k].embedding, query_emb, dims))
      /\ AfterRound =>
           \A k \in 1..(Len(df) - 1) : ScoreGE(df[k].scores, df[k + 1].scores)

\* C19 witness: after the second round a surviving row carries a score
\* other than the one the first round gave it.
C19_Witness ==
  /\ pc = "loop" /\ i = 3
  /\ Len(df) >= 1
  /\ ~ScoreEQ(df[1].scores, CosAt(df[1].embedding, query_emb, scales[1]))

\* C20: a call with a valid schedule, ascending or not, raises no error and
\* returns after one round per element of scales.
C20_RunsEveryRound ==
  /\ pc # "raised"
  /\ pc = "done" => i = Len(scales) + 1

\* ------------------------------------------- rounds as ranked lists
\* C21: the frame a completed round leaves is a ranked list that can be
\* used as it is: it has at least one row, its rows are rows of the
\* caller's frame, and it is in descending order of the round's scores.
C21_RankedListAfterEveryRound ==
  AfterRound =>
    /\ Len(df) >= 1
    /\ TitleSet(df) \subseteq TitleSet(df_in)
    /\ \A k \in 1..(Len(df) - 1) : ScoreGE(df[k].scores, df[k + 1].scores)

\* C24: the rows of the frame are always distinct rows of the caller's
\* frame, and no step brings in a row the frame did not hold before it: a
\* row dropped by a round is in no later frame.
C24_NestedCandidateSets ==
  /\ [](/\ TitleSet(df) \subseteq TitleSet(df_in)
        /\ Cardinality(TitleSet(df)) = Len(df))
  /\ [][TitleSet(df') \subseteq TitleSet(df)]_vars

\* C24 witness: a run of two rounds has returned; a row was dropped in the
\* first round and another one in the second.
C24_Witness ==
  /\ pc = "done"
  /\ Len(scales) = 2
  /\ \E t \in TitleSet(df_in) : t \notin TitleSet(entering)
  /\ \E t \in TitleSet(entering) : t \notin TitleSet(df)
  /\ Len(df) >= 1

\* C25: the prune of a round keeps no row whose score of that round is
\* below the score of a row it drops.
C25_RetainedNotBelowDropped ==
  [][pc = "prune" =>
       \A a \in 1..Len(df') : \A b \in 1..Len(df) :
         df[b].title \notin TitleSet(df') =>
           ScoreGE(df'[a].scores, df[b].scores)]_vars

\* C25 witness: a round has kept a row and dropped one with a strictly
\* smaller score that was ahead of it in the frame entering the round.
C25_Witness ==
  /\ pc = "loop" /\ i > 1
  /\ Len(df) >= 1
  /\ \E m \in 1..Len(entering) :
       /\ entering[m].title \notin TitleSet(df)
       /\ entering[m].title < df[1].title
       /\ ScoreGT(df[1].scores,
                  CosAt(entering[m].embedding, query_emb, scales[i - 1]))

\* ------------------------------------------- zero prefixes and ascent
\* Every scale is larger than the one before it.
StrictlyAscending == \A j \in 1..(Len(scales) - 1) : scales[j] < scales[j + 1]

\* The slice v[:dims] the code takes has norm zero.
ZeroNorm(v, dims) == NormSq(Prefix(v, dims)) = 0

\* The first round takes no slice of norm zero, of the query or of a
\* candidate.
FirstRoundClean ==
  /\ Len(scales) >= 1
  /\ ~ZeroNorm(query_emb, scales[1])
  /\ \A k \in 1..Len(df_in) : ~ZeroNorm(df_in[k].embedding, scales[1])

\* C28: under a strictly ascending schedule whose first round meets no
\* slice of norm zero, no later round meets one, in the query or in a
\* candidate that entered the round.
C28_ZeroPrefixOnlyInFirstRound ==
  (/\ StrictlyAscending
   /\ FirstRoundClean
   /\ pc \in {"score", "rerank", "prune"}
   /\ i >= 2) =>
    /\ ~ZeroNorm(query_emb, scales[i])
    /\ \A k \in 1..Len(entering) : ~ZeroNorm(entering[k].embedding, scales[i])

\* C28 witness: the second round of an ascending schedule has scored a
\* candidate and a query that have a zero prefix at a smaller length than
\* the first scale.
C28_Witness ==
  /\ pc = "rerank" /\ i = 2
  /\ StrictlyAscending
  /\ FirstRoundClean
  /\ scales[1] > 1
  /\ ZeroNorm(query_emb, 1)
  /\ \E k \in 1..Len(df) : ZeroNorm(df[k].embedding, scales[1] - 1)

\* ------------------------------------------- scoring order
\* C23: in whatever order the rows of a round are scored, every value
\* collected is the score that scoring the rows one after the other in
\* frame order gives that row, and the frame that goes to the re-rank is
\* the frame so scored; the re-rank and the prune then work on that frame.
C23_ScoringOrderIrrelevant ==
  /\ pc = "score" =>
       \A n \in 1..Len(scores) :
         scores[n].score = Scored(df)[Pos(df, scores[n].title)].scores
  /\ pc = "rerank" => df = Scored(entering)

\* C23 witness: all rows of a second round have been scored, the last row
\* of the frame first, with different scores, and await the assignment.
C23_Witness ==
  /\ pc = "score" /\ i = 2
  /\ Len(df) >= 2
  /\ Len(scores) = Len(df)
  /\ scores[1].title = df[Len(df)].title
  /\ ~ScoreEQ(scores[1].score, scores[2].score)

\* ------------------------------------------- calls side by side
\* The call c is where a call with its arguments can be when it runs alone.
AsAlone(c) ==
  /\ ((c.pc = "loop" /\ c.i > 1) \/ c.pc = "done") =>
       c.df \in FramesAfter(Passed(c.df_in), c.query_emb, c.scales,
                            c.prune_ratio, c.i - 1)
  /\ c.pc = "raised" =>
       <<>> \in FramesAfter(Passed(c.df_in), c.query_emb, c.scales,
                            c.prune_ratio, c.i - 1)

\* C22: of two calls on frames and queries of their own whose steps
\* interleave in any way, each holds after every round, and returns, a
\* frame it can hold or return when it runs alone, and fails only where it
\* fails alone.
C22_CallsDoNotInterfere == AsAlone(ThisCall) /\ AsAlone(other)

\* C22 witness: two calls with different frames, queries and schedules
\* have both returned, one of them rows, the other after two rounds.
C22_Witness ==
  /\ pc = "done" /\ other.pc = "done"
  /\ Len(df) >= 1
  /\ other.i = 3
  /\ query_emb # other.query_emb
  /\ df_in[1].embedding # other.df_in[1].embedding

\* The frames f and g hold the same candidates in the same order with
\* scores that are equal as numbers (both undefined, or both the same).
SameRanking(f, g) ==
  /\ Len(f) = Len(g)
  /\ \A k \in 1..Len(f) :
       /\ f[k].title = g[k].title
       /\ (f[k].scores.den = 0) = (g[k].scores.den = 0)
       /\ ScoreEQ(f[k].scores, g[k].scores)

\* C26: a call returns, and leaves after each round, the candidates, order
\* and scores that a call can return whose query and candidate embeddings
\* differ from its own only after the first max(scales) components; it
\* fails only where that call fails.
C26_OnlyLeadingComponentsCount ==
  /\ AfterRound =>
       \E g \in FramesAfter(other.df_in, other.query_emb, scales, prune_ratio, i - 1) :
         /\ Len(g) = Len(df)
         /\ \A k \in 1..Len(df) :
              df[k].title = g[k].title /\ df[k].scores = g[k].scores
  /\ pc = "raised" =>
       <<>> \in FramesAfter(other.df_in, other.query_emb, scales, prune_ratio, i - 1)

\* C26 witness: a call has returned rows in another order than passed in,
\* while the query and the first candidate of the other call differ from
\* its own after max(scales).
C26_Witness ==
  /\ pc = "done"
  /\ Len(df) = 2
  /\ df[1].title = 2
  /\ ScoreGT(df[1].scores, df[2].scores)
  /\ other.query_emb # query_emb
  /\ other.df_in[1].embedding # df_in[1].embedding

CallsOn(fn) == { n \in 1..Len(calls) : calls[n].fn = fn }

\* C29: with a mode other than "sparse", "dense" and "hybrid" the method
\* raises ValueError("Invalid mode"), returns nothing and calls neither the
\* embedding function nor the client; with mode "sparse" it never calls the
\* embedding function and has, when it returns, called client.search once
\* and nothing else.
C29_ModeDispatch ==
  /\ mode \notin { "sparse", "dense", "hybrid" } =>
       /\ calls = <<>>
       /\ search_pc # "returned"
       /\ search_pc = "raised" => error = "Invalid mode"
       /\ search_pc \in { "entry", "dispatch", "raised" }
  /\ mode = "sparse" =>
       /\ CallsOn("embedding_function") = {}
       /\ search_pc # "raised"
       /\ search_pc \in { "collect", "returned" } =>
            /\ Len(calls) = 1
            /\ calls[1].fn = "client.search"

\* C29 witness: a call with an unknown mode on a retriever whose embedding
\* function works has raised.
C29_Witness ==
  /\ search_pc = "raised"
  /\ mode = "bm25"
  /\ embedding_function = "dict"
  /\ error = "Invalid mode"

\* ------------------------------------------- Pass@5 evaluation
\* C30: while the results of a query are matched no more golden contents
\* are counted than have been gone through, so chunks_found never exceeds
\* len(golden_contents); every query_score lies in [0,1]; and after every
\* iteration total_query_score is at most num_queries.
C30_ScoresBounded ==
  /\ chunks_found <= Len(golden_contents)
  /\ eval_pc = "match" => chunks_found <= golden_at - 1
  /\ query_score.den > 0
  /\ 0 <= query_score.num /\ query_score.num <= query_score.den
  /\ eval_pc \in { "next", "end" } =>
       /\ total_query_score.den > 0
       /\ 0 <= total_query_score.num
       /\ total_query_score.num <= num_queries * total_query_score.den

\* C30 witness: two items are scored, one with all its golden contents
\* found and one with one of two; the golden content found last is twice
\* among the contents retrieved.
C30_Witness ==
  /\ eval_pc = "next"
  /\ num_queries = 2
  /\ total_query_score = [num |-> 3, den |-> 2]
  /\ Len(golden_contents) = 2
  /\ chunks_found = 1
  /\ Len(top_results) = 2
  /\ strip(top_results[1]) = strip(top_results[2])
  /\ strip(top_results[1]) \in { golden_contents[n] : n \in 1..2 }

====
